---- MODULE Spec2Model ----
(***************************************************************************)
(* Model of the modpack synchronisation of uklient (src/src/modpack.rs):   *)
(* install_modpack, clean, find_dupes_by_key and download.                 *)
(*                                                                         *)
(* File names are sequences of bytes, so that the suffix test of clean     *)
(* and the ordering used by find_dupes_by_key are computed on the name     *)
(* itself.  Vec indices are 1-based here (Rust's index i is i + 1).        *)
(***************************************************************************)
EXTENDS Integers, Sequences, FiniteSets, Bags, TLC

(* ------------------------------ bounds -------------------------------- *)
\* longest manifest (metadata.files) of a modelled sync run
MaxPlan == 2
\* longest sequence handed to find_dupes_by_key on its own
MaxDupLen == 4
\* size of the large download plan: two more items than the pool has permits
PoolPlan == 77
\* longest overrides list
MaxOverrides == 1
\* longest overrides list of the install loop taken alone
MaxInstall == 2
\* most requests get_credentials posts to TOKEN_URL before the model stops it
MaxPolls == 8

(* -------------------------- program constants ------------------------- *)
\* Semaphore::new(75)
Permits == 75

(* ------------------------------ names --------------------------------- *)
\* "a", "b"  (two ordinary artifacts)
NA == <<97>>
NB == <<98>>
\* "a.part" (a partial download) and "xpart" (ends in "part", not ".part")
NP == <<97, 46, 112, 97, 114, 116>>
NX == <<120, 112, 97, 114, 116>>
\* ".old", the retirement subdirectory of a managed directory
OldName == <<46, 111, 108, 100>>
Names == {NA, NB, NP, NX}
\* the suffix clean tests for: "part"
PartSuffix == <<112, 97, 114, 116>>
\* the suffix of a partial download as documented: ".part"
DotPart == <<46, 112, 97, 114, 116>>

Dirs == {"mods", "resourcepacks"}
Urls == {1, 2}
\* a Downloadable: filename() is the last component of output, dir its parent
Downloadables == [filename : Names, dir : Dirs, url : Urls]
\* the content of a file, and the relative paths of the files under a path:
\* "" is the path itself (a regular file), "x" and "y" are files of a directory
Contents == {1, 2}
RelPaths == {"", "x", "y"}
Trees == SUBSET (RelPaths \X Contents)
\* an entry of read_overrides: (file_name, path); kind is what path is on disk
\* ("link" is a symbolic link to a regular file, "other" any path that is_file
\* and is_dir both reject: a device node, a dangling link, a missing path) and
\* tree the files found under path with their contents
Installables == [name : Names, kind : {"file", "link", "dir", "other"}, tree : Trees]
\* what output_dir holds under a name
Outputs == [kind : {"none", "file", "dir"}, tree : Trees]
Absent == [kind |-> "none", tree |-> {}]
FileTree(c) == {<<"", c>>}

(* ------------------------- pure helpers ------------------------------- *)
\* str::ends_with
EndsWith(s, suf) ==
    /\ Len(s) >= Len(suf)
    /\ SubSeq(s, Len(s) - Len(suf) + 1, Len(s)) = suf

\* Ord for String: lexicographic on bytes
StrLess(s, t) ==
    \E k \in 1..(Len(t)) :
        /\ k <= Len(s) + 1
        /\ \A j \in 1..(k - 1) : s[j] = t[j]
        /\ (k = Len(s) + 1 \/ s[k] < t[k])

\* Vec::swap_remove(i): the last element takes the place of element i
SwapRemove(seq, i) ==
    LET n == Len(seq)
    IN  SubSeq([seq EXCEPT ![i] = seq[n]], 1, n - 1)

\* Iterator::position: the first index whose filename is name, 0 for None
PositionDl(seq, name) ==
    IF \E i \in 1..Len(seq) : seq[i].filename = name
    THEN CHOOSE i \in 1..Len(seq) :
            /\ seq[i].filename = name
            /\ \A j \in 1..(i - 1) : seq[j].filename # name
    ELSE 0

PositionInst(seq, name) ==
    IF \E i \in 1..Len(seq) : seq[i].name = name
    THEN CHOOSE i \in 1..Len(seq) :
            /\ seq[i].name = name
            /\ \A j \in 1..(i - 1) : seq[j].name # name
    ELSE 0

\* a sort that leaves the slice as it is
SortNothing(seq) == {seq}

\* the outcomes of slice.sort_unstable_by_key(filename): every permutation of
\* the slice that is ordered by filename (equal keys in any order)
SortUnstableByKey(seq) ==
    LET n == Len(seq)
        bij == {f \in [1..n -> 1..n] : \A i, j \in 1..n : f[i] = f[j] => i = j}
        perms == {[i \in 1..n |-> seq[f[i]]] : f \in bij}
    IN  {p \in perms :
            \A i \in 1..(n - 1) : ~StrLess(p[i + 1].filename, p[i].filename)}

RECURSIVE Descending(_)
\* the elements of a set of integers, largest first
Descending(S) ==
    IF S = {} THEN <<>>
    ELSE LET m == CHOOSE x \in S : \A y \in S : y <= x
         IN  <<m>> \o Descending(S \ {m})

\* AdjacentDupes with a scan that stops one pair short
AdjacentDupesShort(sorted) ==
    IF Len(sorted) < 2 THEN <<>>
    ELSE Descending({i \in 1..(Len(sorted) - 2) :
                        sorted[i].filename = sorted[i + 1].filename})

\* the scan of find_dupes_by_key over the sorted slice, then indices.reverse()
AdjacentDupes(sorted) ==
    IF Len(sorted) < 2 THEN <<>>
    ELSE Descending({i \in 1..(Len(sorted) - 1) :
                        sorted[i].filename = sorted[i + 1].filename})

RECURSIVE RemoveDupes(_, _)
\* dupes.into_iter().map(|i| to_download.swap_remove(i)), run to its end
RemoveDupes(seq, idx) ==
    IF idx = <<>> THEN seq
    ELSE RemoveDupes(SwapRemove(seq, Head(idx)), Tail(idx))

\* IsPartial of a clean that has no rule for partial downloads
IsPartialNever(name) == FALSE

\* the file is a partial download as far as clean can tell
IsPartial(name) == EndsWith(name, PartSuffix)

\* how many times a sequence holds an element
CountItem(seq, x) == Cardinality({i \in 1..Len(seq) : seq[i] = x})

FileNames(seq) == {seq[i].filename : i \in 1..Len(seq)}
CountName(seq, name) == Cardinality({i \in 1..Len(seq) : seq[i].filename = name})
SeqsUpTo(S, n) == UNION {[1..k -> S] : k \in 0..n}

(* ------------------------------ state --------------------------------- *)
VARIABLES
    pc,          \* position of the control flow
    cdir,        \* the directory clean was called with
    run,         \* 1 for the first call of clean on cdir, 2 for a repeated one
    result,      \* what install_modpack / download returned: "none", "ok", or an error
    files,       \* files[d]: names of the regular files in directory d
    subdirs,     \* subdirs[d]: names of the subdirectories of d other than .old
    old,         \* old[d]: names of the files in d/.old
    oldDir,      \* oldDir[d]: d/.old exists
    fslog,       \* the file operations clean attempted, with their outcome
    to_download, \* Vec<Downloadable>
    to_install,  \* the to_install argument of clean
    overrides,   \* the result of read_overrides
    manifest,    \* metadata.files, as Downloadables (read-only)
    installs0,   \* to_install as first handed to clean (read-only)
    files0,      \* files before the run (read-only)
    old0,        \* old before the run (read-only)
    warnEnabled, \* the warn! event of clean is formatted by a subscriber
    broken,      \* the urls whose transfer fails
    dupes,       \* what find_dupes_by_key returned in the current clean
    slice_out,   \* the caller's slice as find_dupes_by_key left it
    ndedupe,     \* number of calls of find_dupes_by_key so far
    plan_in,     \* to_download on entry of the current clean
    inst_in,     \* to_install on entry of the current clean
    entries,     \* the directory entries the loop of clean has not visited yet
    pre,         \* the regular files of cdir when read_dir was called
    preOld,      \* old[cdir] when read_dir was called
    cres,        \* what the current clean returned: "none", "ok", "err"
    cleaned,     \* the directories on which clean has returned Ok
    spawned,     \* number of items the loop of download has spawned
    permits,     \* permits available in the semaphore
    held,        \* the loop holds a permit it has not yet moved into a task
    running,     \* bag of the Downloadables whose task is in flight
    joinq,       \* results of finished tasks, in completion order, not yet joined
    aborted,     \* bag of the Downloadables whose task was aborted in flight
    started,     \* bag of the Downloadables whose task was spawned
    completed,   \* results of all finished tasks, in completion order
    inst_i,      \* number of installables the install loop has gone through
    installed,   \* names copied into the output directory
    out,         \* output_dir: name -> what is there, with the files under it
    apc,         \* where get_credentials is: "idle", "post", "tick", "fetch", "ret"
    polls,       \* number of requests get_credentials has posted to TOKEN_URL
    resps,       \* the bodies of the responses to them, in order
    ares         \* what get_credentials returned

ctlv == <<pc, cdir, run, result>>
fsv == <<files, subdirs, old, oldDir, fslog>>
planv == <<to_download, to_install, overrides>>
inputv == <<manifest, installs0, files0, old0, warnEnabled, broken>>
cleanv == <<dupes, slice_out, ndedupe, plan_in, inst_in, entries, pre, preOld, cres, cleaned>>
dlv == <<spawned, permits, held, running, joinq, aborted, started, completed>>
instv == <<inst_i, installed, out>>
authv == <<apc, polls, resps, ares>>
vars == <<ctlv, fsv, planv, inputv, authv, cleanv, dlv, instv>>

\* one attempted file operation of clean
FsOp(op, d, name, ok) == [op |-> op, dir |-> d, name |-> name, ok |-> ok]
\* the operations that changed the file system
Mutations == {r \in fslog : r.ok}

\* a move that replaces what the destination holds
MoveRefusedNever(d, name) == FALSE

(* ------------------------------ clean --------------------------------- *)
\* fs_extra::file::move_file with FileCopyOptions::new() (no overwrite, no
\* skip_exist) refuses a destination that exists
MoveRefused(d, name) == name \in old[d]

\* lines 166-176: find_dupes_by_key sorts to_download in place; the reported
\* indices are swap-removed by the iterator inside the warn! arguments, which
\* runs only when the event is formatted
CleanDedupe ==
    /\ pc = "clean_dedupe"
    /\ \E sorted \in SortUnstableByKey(to_download) :
          LET idx == AdjacentDupes(sorted)
          IN  /\ dupes' = idx
              /\ slice_out' = sorted
              /\ to_download' = IF idx # <<>> /\ warnEnabled
                                THEN RemoveDupes(sorted, idx)
                                ELSE sorted
    /\ ndedupe' = ndedupe + 1
    /\ plan_in' = to_download
    /\ inst_in' = to_install
    /\ cres' = "none"
    /\ pc' = "clean_mkdir"
    /\ UNCHANGED <<cdir, run, result, fsv, to_install, overrides, inputv, authv,
                   entries, pre, preOld, cleaned, dlv, instv>>

\* CleanMkdir that makes .old anew even when it exists
CleanMkdirAlways ==
    /\ pc = "clean_mkdir"
    /\ oldDir' = [oldDir EXCEPT ![cdir] = TRUE]
    /\ fslog' = fslog \cup {FsOp("mkdir", cdir, OldName, TRUE)}
    /\ entries' = files[cdir] \cup subdirs[cdir] \cup {OldName}
    /\ pre' = files[cdir]
    /\ preOld' = old[cdir]
    /\ pc' = "clean_loop"
    /\ cres' = "none"
    /\ UNCHANGED <<cdir, run, result, files, subdirs, old, planv, inputv, authv,
                   dupes, slice_out, ndedupe, plan_in,
                   inst_in, cleaned, dlv, instv>>

\* lines 177-178: create_dir_all(directory/.old)?, read_dir(directory)?
CleanMkdir ==
    /\ pc = "clean_mkdir"
    /\ \E outcome \in {"ok", "mkdir_err", "read_dir_err"} :
          /\ IF outcome = "mkdir_err" \/ oldDir[cdir]
             THEN UNCHANGED <<oldDir, fslog>>
             ELSE /\ oldDir' = [oldDir EXCEPT ![cdir] = TRUE]
                  /\ fslog' = fslog \cup {FsOp("mkdir", cdir, OldName, TRUE)}
          /\ IF outcome = "ok"
             THEN /\ entries' = files[cdir] \cup subdirs[cdir] \cup {OldName}
                  /\ pre' = files[cdir]
                  /\ preOld' = old[cdir]
                  /\ pc' = "clean_loop"
                  /\ cres' = "none"
             ELSE /\ UNCHANGED <<entries, pre, preOld>>
                  /\ pc' = "clean_ret"
                  /\ cres' = "err"
    /\ UNCHANGED <<cdir, run, result, files, subdirs, old, planv, inputv, authv,
                   dupes, slice_out, ndedupe, plan_in,
                   inst_in, cleaned, dlv, instv>>

\* line 179 / 181: file? or file.file_type()? fails
EntryIoError(e) ==
    /\ pc' = "clean_ret"
    /\ cres' = "err"
    /\ entries' = entries \ {e}
    /\ UNCHANGED <<fsv, planv>>

\* EntrySkip that still matches the name of the entry against the plan
EntrySkipMatched(e) ==
    /\ e \notin files[cdir]
    /\ entries' = entries \ {e}
    /\ to_download' = IF PositionDl(to_download, e) # 0
                      THEN SwapRemove(to_download, PositionDl(to_download, e))
                      ELSE to_download
    /\ UNCHANGED <<pc, cres, fsv, to_install, overrides>>

\* line 181: not a regular file, nothing is done with it
EntrySkip(e) ==
    /\ e \notin files[cdir]
    /\ entries' = entries \ {e}
    /\ UNCHANGED <<pc, cres, fsv, planv>>

\* lines 186-191: the file is already downloaded
EntryDownloaded(e) ==
    /\ e \in files[cdir]
    /\ PositionDl(to_download, e) # 0
    /\ to_download' = SwapRemove(to_download, PositionDl(to_download, e))
    /\ entries' = entries \ {e}
    /\ UNCHANGED <<pc, cres, fsv, to_install, overrides>>

\* lines 193-197: the file is already installed
EntryInstalled(e) ==
    /\ e \in files[cdir]
    /\ PositionDl(to_download, e) = 0
    /\ PositionInst(to_install, e) # 0
    /\ to_install' = SwapRemove(to_install, PositionInst(to_install, e))
    /\ entries' = entries \ {e}
    /\ UNCHANGED <<pc, cres, fsv, to_download, overrides>>

\* line 208: remove_file(file.path()).await? on a stale file; tried is what
\* was attempted on the file before
RemoveStale(e, ok, tried) ==
    /\ fslog' = fslog \cup tried \cup {FsOp("delete", cdir, e, ok)}
    /\ IF ok
       THEN /\ files' = [files EXCEPT ![cdir] = @ \ {e}]
            /\ UNCHANGED <<pc, cres>>
       ELSE /\ UNCHANGED files
            /\ pc' = "clean_ret"
            /\ cres' = "err"
    /\ UNCHANGED <<subdirs, old, oldDir>>

\* lines 200-209, left operand of ||: a name that ends with "part" is removed
\* without a move being attempted
EntryDeletePartial(e) ==
    /\ e \in files[cdir]
    /\ PositionDl(to_download, e) = 0
    /\ PositionInst(to_install, e) = 0
    /\ IsPartial(e)
    /\ \E ok \in BOOLEAN : RemoveStale(e, ok, {})
    /\ entries' = entries \ {e}
    /\ UNCHANGED planv

\* lines 200-209, right operand of ||: move_file into .old succeeded (its
\* copy and removal are taken as one step)
EntryMoved(e) ==
    /\ e \in files[cdir]
    /\ PositionDl(to_download, e) = 0
    /\ PositionInst(to_install, e) = 0
    /\ ~IsPartial(e)
    /\ ~MoveRefused(cdir, e)
    /\ files' = [files EXCEPT ![cdir] = @ \ {e}]
    /\ old' = [old EXCEPT ![cdir] = @ \cup {e}]
    /\ fslog' = fslog \cup {FsOp("move", cdir, e, TRUE)}
    /\ entries' = entries \ {e}
    /\ UNCHANGED <<pc, cres, subdirs, oldDir, planv>>

\* EntryMoveFailed without the fallback: the file stays where it is
EntryMoveFailedKeep(e) ==
    /\ e \in files[cdir]
    /\ PositionDl(to_download, e) = 0
    /\ PositionInst(to_install, e) = 0
    /\ ~IsPartial(e)
    /\ fslog' = fslog \cup {FsOp("move", cdir, e, FALSE)}
    /\ entries' = entries \ {e}
    /\ UNCHANGED <<pc, cres, files, subdirs, old, oldDir, planv>>

\* lines 200-209: move_file failed (refused, or an I/O error), so remove_file
EntryMoveFailed(e) ==
    /\ e \in files[cdir]
    /\ PositionDl(to_download, e) = 0
    /\ PositionInst(to_install, e) = 0
    /\ ~IsPartial(e)
    /\ \E ok \in BOOLEAN : RemoveStale(e, ok, {FsOp("move", cdir, e, FALSE)})
    /\ entries' = entries \ {e}
    /\ UNCHANGED planv

\* one iteration of the loop of lines 178-211, on any entry read_dir has left
CleanEntry ==
    /\ pc = "clean_loop"
    /\ \E e \in entries :
          \/ EntryIoError(e)
          \/ EntrySkip(e)
          \/ EntryDownloaded(e)
          \/ EntryInstalled(e)
          \/ EntryDeletePartial(e)
          \/ EntryMoved(e)
          \/ EntryMoveFailed(e)
    /\ UNCHANGED <<cdir, run, result, inputv, authv, dupes, slice_out, ndedupe, plan_in,
                   inst_in, pre,
                   preOld, cleaned, dlv, instv>>

\* line 212: the loop is over, Ok(())
CleanReturn ==
    /\ pc = "clean_loop"
    /\ entries = {}
    /\ pc' = "clean_ret"
    /\ cres' = "ok"
    /\ cleaned' = cleaned \cup {cdir}
    /\ UNCHANGED <<cdir, run, result, fsv, planv, inputv, authv, dupes, slice_out,
                   ndedupe, plan_in,
                   inst_in, entries, pre, preOld, dlv, instv>>

\* clean is called again on the same directory with the same manifest
\* (idempotence, spec 4.2): the plan is the manifest again, the directory is
\* as the first call left it
CleanAgain ==
    /\ pc = "clean_ret"
    /\ run = 1
    /\ run' = 2
    /\ to_download' = manifest
    /\ to_install' = installs0
    /\ fslog' = {}
    /\ result' = IF cres = "ok" THEN [kind |-> "ok"] ELSE [kind |-> "err", err |-> "io"]
    /\ pc' = "clean_dedupe"
    /\ UNCHANGED <<cdir, files, subdirs, old, oldDir, overrides, inputv, authv,
                   cleanv, dlv, instv>>

(* ----------------------------- download ------------------------------- *)
Ok == [kind |-> "ok"]
None == [kind |-> "none"]
IoError == [kind |-> "err", err |-> "io"]
MetaError(what) == [kind |-> "err", err |-> "meta", what |-> what]
DownloadError(item) == [kind |-> "err", err |-> "download", item |-> item]
UnknownTypeError(name) == [kind |-> "err", err |-> "unknown_type", name |-> name]
One(x) == SetToBag({x})

\* lines 220-224: create_dir_all(output_dir)?, the JoinSet, the semaphore
DownloadStart ==
    /\ pc = "download"
    /\ \E ok \in BOOLEAN :
          IF ok
          THEN /\ pc' = "spawn"
               /\ permits' = Permits
               /\ UNCHANGED result
          ELSE /\ pc' = "failed"
               /\ result' = IoError
               /\ UNCHANGED permits
    /\ spawned' = 0
    /\ held' = FALSE
    /\ running' = EmptyBag
    /\ joinq' = <<>>
    /\ UNCHANGED <<cdir, run, fsv, planv, inputv, authv, cleanv, aborted, started,
                   completed, instv>>

\* Acquire that does not wait for a permit to be available
AcquireNoWait ==
    /\ pc = "spawn"
    /\ spawned < Len(to_download)
    /\ ~held
    /\ permits' = permits - 1
    /\ held' = TRUE
    /\ UNCHANGED <<ctlv, fsv, planv, inputv, authv, cleanv, spawned, running, joinq,
                   aborted, started, completed, instv>>

\* line 226: semaphore.clone().acquire_owned().await for the next item
Acquire ==
    /\ pc = "spawn"
    /\ spawned < Len(to_download)
    /\ ~held
    /\ permits > 0
    /\ permits' = permits - 1
    /\ held' = TRUE
    /\ UNCHANGED <<ctlv, fsv, planv, inputv, authv, cleanv, spawned, running, joinq,
                   aborted, started, completed, instv>>

\* lines 227-234: tasks.spawn, the permit moves into the task
Spawn ==
    /\ pc = "spawn"
    /\ held
    /\ held' = FALSE
    /\ running' = running (+) One(to_download[spawned + 1])
    /\ started' = started (+) One(to_download[spawned + 1])
    /\ spawned' = spawned + 1
    /\ UNCHANGED <<ctlv, fsv, planv, inputv, authv, cleanv, permits, joinq, aborted,
                   completed, instv>>

\* line 235: the for loop has gone through to_download
SpawnLoopEnd ==
    /\ pc = "spawn"
    /\ spawned = Len(to_download)
    /\ ~held
    /\ pc' = "join"
    /\ UNCHANGED <<cdir, run, result, fsv, planv, inputv, authv, cleanv, dlv, instv>>

\* a finishing task that keeps its permit
PermitsKept(p) == p

\* what a finishing task gives back: dropping _permit returns its permit
PermitsAfterTask(p) == p + 1

\* lines 229-234: a task's transfer succeeds, its file is in its directory
TaskOk(item) ==
    /\ pc \in {"spawn", "join"}
    /\ BagIn(item, running)
    /\ item.url \notin broken
    /\ running' = running (-) One(item)
    /\ permits' = PermitsAfterTask(permits)
    /\ files' = [files EXCEPT ![item.dir] = @ \cup {item.filename}]
    /\ joinq' = Append(joinq, [ok |-> TRUE, item |-> item])
    /\ completed' = Append(completed, [ok |-> TRUE, item |-> item])
    /\ UNCHANGED <<ctlv, subdirs, old, oldDir, fslog, planv, inputv, authv, cleanv,
                   spawned, held, aborted, started, instv>>

\* TaskFail that starts a failed transfer again, once per item of the plan
TaskFailRetried(item) ==
    /\ pc \in {"spawn", "join"}
    /\ BagIn(item, running)
    /\ item.url \in broken
    /\ IF CopiesIn(item, started) <= CountItem(to_download, item)
       THEN /\ started' = started (+) One(item)
            /\ UNCHANGED <<running, permits, joinq, completed>>
       ELSE /\ running' = running (-) One(item)
            /\ permits' = PermitsAfterTask(permits)
            /\ joinq' = Append(joinq, [ok |-> FALSE, item |-> item])
            /\ completed' = Append(completed, [ok |-> FALSE, item |-> item])
            /\ UNCHANGED started
    /\ UNCHANGED <<ctlv, fsv, planv, inputv, authv, cleanv, spawned, held, aborted,
                   instv>>

\* lines 229-234: a task's transfer fails (downloadable.download(..).await?)
TaskFail(item) ==
    /\ pc \in {"spawn", "join"}
    /\ BagIn(item, running)
    /\ item.url \in broken
    /\ running' = running (-) One(item)
    /\ permits' = PermitsAfterTask(permits)
    /\ joinq' = Append(joinq, [ok |-> FALSE, item |-> item])
    /\ completed' = Append(completed, [ok |-> FALSE, item |-> item])
    /\ UNCHANGED <<ctlv, fsv, planv, inputv, authv, cleanv, spawned, held, aborted,
                   started, instv>>

\* lines 236-237: join_next gave an Ok result
JoinOk ==
    /\ pc = "join"
    /\ joinq # <<>>
    /\ Head(joinq).ok
    /\ joinq' = Tail(joinq)
    /\ UNCHANGED <<ctlv, fsv, planv, inputv, authv, cleanv, spawned, permits, held,
                   running, aborted, started, completed, instv>>

\* JoinErr that drops the error and goes on joining
JoinErrSwallow ==
    /\ pc = "join"
    /\ joinq # <<>>
    /\ ~Head(joinq).ok
    /\ joinq' = Tail(joinq)
    /\ UNCHANGED <<ctlv, fsv, planv, inputv, authv, cleanv, spawned, permits, held,
                   running, aborted, started, completed, instv>>

\* lines 236-237: join_next gave an Err and res?? returns it; the JoinSet is
\* dropped with the function's locals, which aborts the tasks still in it
JoinErr ==
    /\ pc = "join"
    /\ joinq # <<>>
    /\ ~Head(joinq).ok
    /\ result' = DownloadError(Head(joinq).item)
    /\ pc' = "failed"
    /\ aborted' = running
    /\ running' = EmptyBag
    /\ permits' = permits + BagCardinality(running)
    /\ joinq' = <<>>
    /\ UNCHANGED <<cdir, run, fsv, planv, inputv, authv, cleanv, spawned, held,
                   started, completed, instv>>

\* after line 237 returned: an aborted task is cancelled at its next await; one
\* that was in its last poll when the JoinSet was dropped still finishes, and
\* its result is read by nobody
AbortedTaskFinishes(item) ==
    /\ pc = "failed"
    /\ BagIn(item, aborted)
    /\ aborted' = aborted (-) One(item)
    /\ files' = IF item.url \in broken THEN files
                ELSE [files EXCEPT ![item.dir] = @ \cup {item.filename}]
    /\ UNCHANGED <<ctlv, subdirs, old, oldDir, fslog, planv, inputv, authv, cleanv,
                   spawned, permits, held, running, joinq, started, completed,
                   instv>>

\* JoinNone that does not wait for the tasks still in flight
JoinNoneEarly ==
    /\ pc = "join"
    /\ joinq = <<>>
    /\ pc' = "install"
    /\ inst_i' = 0
    /\ UNCHANGED <<cdir, run, result, fsv, planv, inputv, authv, cleanv, dlv, installed,
                   out>>

\* line 236: join_next gave None, the JoinSet is empty
JoinNone ==
    /\ pc = "join"
    /\ joinq = <<>>
    /\ running = EmptyBag
    /\ pc' = "install"
    /\ inst_i' = 0
    /\ UNCHANGED <<cdir, run, result, fsv, planv, inputv, authv, cleanv, dlv, installed,
                   out>>

\* Path::is_file and Path::is_dir follow symbolic links
IsFile(x) == x.kind \in {"file", "link"}
IsDir(x) == x.kind = "dir"

\* copy replaces a regular file and fails on a directory; copy_dir creates
\* output_dir/<name> if it is absent and fails if it is a regular file
Blocked(o, x) ==
    \/ IsFile(x) /\ o.kind = "dir"
    \/ IsDir(x) /\ o.kind = "file"

\* Merge that keeps a file the destination already has
MergeKeep(dst, src) == dst \cup {p \in src : \A q \in dst : q[1] # p[1]}
\* copy_dir with overwrite = true: the files of src replace those of dst that
\* have the same relative path, the other files of dst stay
Merge(dst, src) == src \cup {p \in dst : \A q \in src : q[1] # p[1]}

\* output_dir/<name> once the files `part` of x were copied over o
CopyInto(o, x, part) ==
    IF IsFile(x) THEN [kind |-> "file", tree |-> part]
    ELSE [kind |-> "dir", tree |-> Merge(o.tree, part)]

\* InstallEntry that passes over an entry of unknown type
InstallEntrySkipsUnknown ==
    /\ pc = "install"
    /\ inst_i < Len(overrides)
    /\ LET x == overrides[inst_i + 1]
       IN  \/ /\ IsFile(x) \/ IsDir(x)
              /\ ~Blocked(out[x.name], x)
              /\ out' = [out EXCEPT ![x.name] = CopyInto(@, x, x.tree)]
              /\ installed' = installed \cup {x.name}
              /\ inst_i' = inst_i + 1
              /\ UNCHANGED <<pc, result>>
           \/ /\ IsFile(x) \/ IsDir(x)
              /\ \E part \in SUBSET x.tree :
                    /\ part = {} \/ (IsDir(x) /\ part # x.tree /\ ~Blocked(out[x.name], x))
                    /\ out' = IF part = {} THEN out
                              ELSE [out EXCEPT ![x.name] = CopyInto(@, x, part)]
              /\ pc' = "failed"
              /\ result' = IoError
              /\ UNCHANGED <<inst_i, installed>>
           \/ /\ ~IsFile(x) /\ ~IsDir(x)
              /\ inst_i' = inst_i + 1
              /\ UNCHANGED <<pc, result, installed, out>>
    /\ UNCHANGED <<cdir, run, fsv, planv, inputv, authv, cleanv, dlv>>

\* lines 239-250: one installable of the install loop
InstallEntry ==
    /\ pc = "install"
    /\ inst_i < Len(overrides)
    /\ LET x == overrides[inst_i + 1]
       IN  \/ /\ IsFile(x) \/ IsDir(x)
              /\ ~Blocked(out[x.name], x)
              /\ out' = [out EXCEPT ![x.name] = CopyInto(@, x, x.tree)]
              /\ installed' = installed \cup {x.name}
              /\ inst_i' = inst_i + 1
              /\ UNCHANGED <<pc, result>>
           \/ /\ IsFile(x) \/ IsDir(x)
              /\ \E part \in SUBSET x.tree :
                    /\ part = {} \/ (IsDir(x) /\ part # x.tree /\ ~Blocked(out[x.name], x))
                    /\ out' = IF part = {} THEN out
                              ELSE [out EXCEPT ![x.name] = CopyInto(@, x, part)]
              /\ pc' = "failed"
              /\ result' = IoError
              /\ UNCHANGED <<inst_i, installed>>
           \/ /\ ~IsFile(x) /\ ~IsDir(x)
              /\ pc' = "failed"
              /\ result' = UnknownTypeError(x.name)
              /\ UNCHANGED <<inst_i, installed, out>>
    /\ UNCHANGED <<cdir, run, fsv, planv, inputv, authv, cleanv, dlv>>

\* line 252: Ok(())
InstallDone ==
    /\ pc = "install"
    /\ inst_i = Len(overrides)
    /\ pc' = "done"
    /\ result' = Ok
    /\ UNCHANGED <<cdir, run, fsv, planv, inputv, authv, cleanv, dlv, instv>>

NextDownload ==
    \/ DownloadStart
    \/ Acquire
    \/ Spawn
    \/ SpawnLoopEnd
    \/ \E item \in BagToSet(running) : TaskOk(item)
    \/ \E item \in BagToSet(running) : TaskFail(item)
    \/ JoinOk
    \/ JoinErr
    \/ \E item \in BagToSet(aborted) : AbortedTaskFinishes(item)
    \/ JoinNone
    \/ InstallEntry
    \/ InstallDone

(* -------------------------- install_modpack --------------------------- *)
\* lines 32-60: get_metadata, the other entry point of the module: the
\* project and its versions are requested, and the first version must exist
\* and name a loader
GetMetadata ==
    /\ pc = "metadata"
    /\ \E outcome \in {"ok", "request_err", "no_version", "no_loader"} :
          result' = CASE outcome = "ok" -> Ok
                      [] outcome = "request_err" -> IoError
                      [] outcome = "no_version" -> MetaError("modpack")
                      [] outcome = "no_loader" -> MetaError("loader")
    /\ pc' = "metadata_ret"
    /\ UNCHANGED <<cdir, run, fsv, planv, inputv, authv, cleanv, dlv, instv>>

\* Resolve that looks for the version after the cache directory is created
ResolveAfterCache ==
    /\ pc = "resolve"
    /\ \E outcome \in {"ok", "request_err", "no_version"} :
          /\ fslog' = fslog \cup {FsOp("mkdir", "cache", <<>>, TRUE)}
          /\ IF outcome = "ok"
             THEN pc' = "prepare" /\ UNCHANGED result
             ELSE /\ pc' = "failed"
                  /\ result' = IF outcome = "no_version" THEN MetaError("modpack")
                               ELSE IoError
    /\ UNCHANGED <<cdir, run, files, subdirs, old, oldDir, planv, inputv, authv, cleanv,
                   dlv, instv>>

\* lines 91-99: list_versions(id).await?, find(..).ok_or(MetaError("modpack"))?
Resolve ==
    /\ pc = "resolve"
    /\ \E outcome \in {"ok", "request_err", "no_version"} :
          IF outcome = "ok"
          THEN pc' = "prepare" /\ UNCHANGED result
          ELSE /\ pc' = "failed"
               /\ result' = IF outcome = "no_version" THEN MetaError("modpack")
                            ELSE IoError
    /\ UNCHANGED <<cdir, run, fsv, planv, inputv, authv, cleanv, dlv, instv>>

\* lines 103-134: the cache directory, the modpack file, its metadata, the
\* extraction, read_overrides, and to_download built from metadata.files
Prepare ==
    /\ pc = "prepare"
    /\ \E outcome \in {"ok", "cache_err", "later_err"} :
          /\ fslog' = IF outcome = "cache_err" THEN fslog
                      ELSE fslog \cup {FsOp("mkdir", "cache", <<>>, TRUE)}
          /\ IF outcome = "ok"
             THEN /\ pc' = "clean_dedupe"
                  /\ cdir' = "mods"
                  /\ to_download' = manifest
                  /\ to_install' = <<>>
                  /\ UNCHANGED result
             ELSE /\ pc' = "failed"
                  /\ result' = IoError
                  /\ UNCHANGED <<cdir, to_download, to_install>>
    /\ UNCHANGED <<run, files, subdirs, old, oldDir, overrides, inputv, authv, cleanv,
                   dlv, instv>>

\* CleanFailed that drops the error of clean and goes on to download
CleanFailedIgnored ==
    /\ pc = "clean_ret"
    /\ cres = "err"
    /\ pc' = "download"
    /\ result' = result
    /\ UNCHANGED <<cdir, run, fsv, planv, inputv, authv, cleanv, dlv, instv>>

\* lines 136-142: the ? after a clean that failed
CleanFailed ==
    /\ pc = "clean_ret"
    /\ cres = "err"
    /\ pc' = "failed"
    /\ result' = IoError
    /\ UNCHANGED <<cdir, run, fsv, planv, inputv, authv, cleanv, dlv, instv>>

\* NextDirectory that enters the second clean past its duplicate detection
NextDirectoryNoDedupe ==
    /\ pc = "clean_ret"
    /\ cres = "ok"
    /\ cdir = "mods"
    /\ cdir' = "resourcepacks"
    /\ to_install' = <<>>
    /\ pc' = "clean_mkdir"
    /\ UNCHANGED <<run, result, fsv, to_download, overrides, inputv, authv, cleanv,
                   dlv, instv>>

\* lines 136-137: after mods, clean is called on resourcepacks with the same
\* to_download and a new empty to_install
NextDirectory ==
    /\ pc = "clean_ret"
    /\ cres = "ok"
    /\ cdir = "mods"
    /\ cdir' = "resourcepacks"
    /\ to_install' = <<>>
    /\ pc' = "clean_dedupe"
    /\ UNCHANGED <<run, result, fsv, to_download, overrides, inputv, authv, cleanv,
                   dlv, instv>>

\* lines 144-146: nothing to download and nothing to install
UpToDate ==
    /\ pc = "clean_ret"
    /\ cres = "ok"
    /\ cdir = "resourcepacks"
    /\ to_download = <<>> /\ overrides = <<>>
    /\ pc' = "done"
    /\ result' = Ok
    /\ UNCHANGED <<cdir, run, fsv, planv, inputv, authv, cleanv, dlv, instv>>

\* lines 147-148: download(output_dir, to_download, overrides)
CallDownload ==
    /\ pc = "clean_ret"
    /\ cres = "ok"
    /\ cdir = "resourcepacks"
    /\ ~(to_download = <<>> /\ overrides = <<>>)
    /\ pc' = "download"
    /\ UNCHANGED <<cdir, run, result, fsv, planv, inputv, authv, cleanv, dlv, instv>>

NextCleanSteps ==
    \/ CleanDedupe
    \/ CleanMkdir
    \/ CleanEntry
    \/ CleanReturn

Next ==
    \/ GetMetadata
    \/ Resolve
    \/ Prepare
    \/ NextCleanSteps
    \/ CleanFailed
    \/ NextDirectory
    \/ UpToDate
    \/ CallDownload
    \/ NextDownload

(* -------------------------- get_credentials --------------------------- *)
\* the body of a response to the token request, as far as the parsing of
\* get_credentials tells bodies apart: whether it is a JSON object, whether
\* it has the three fields of Token, and what its "error" field says
Responses ==
    [json : {"object"}, token : BOOLEAN,
     error : {"absent", "authorization_pending", "access_denied"}]
        \cup [json : {"array", "invalid"}, token : {FALSE}, error : {"absent"}]
\* serde_json::from_str::<Token>(&text): unknown fields are ignored
ParsesAsToken(r) == r.json = "object" /\ r.token
\* serde_json::from_str::<Map<String, Value>>(&text)
ParsesAsObject(r) == r.json = "object"
\* json.get("error").and_then(as_str).filter(== "authorization_pending")
IsPending(r) == r.error = "authorization_pending"

LoginError(text) == [kind |-> "err", err |-> "login", text |-> text]
JsonError == [kind |-> "err", err |-> "json"]
RequestError == [kind |-> "err", err |-> "reqwest"]
Credentials(t) == [kind |-> "ok", token |-> t]
\* fetch_info: the requests that follow the token, in order
FetchSteps == <<"xbox", "mojang", "yggdrasil", "profile">>

\* PostToken that asks again after a response that is an error of the login
PostTokenAgain ==
    /\ apc = "post"
    /\ polls < MaxPolls
    /\ polls' = polls + 1
    /\ \/ /\ apc' = "ret"
          /\ ares' = RequestError
          /\ UNCHANGED resps
       \/ \E r \in Responses :
             /\ resps' = Append(resps, r)
             /\ IF ParsesAsToken(r)
                THEN apc' = FetchSteps[1] /\ UNCHANGED ares
                ELSE IF ~ParsesAsObject(r)
                THEN apc' = "ret" /\ ares' = JsonError
                ELSE apc' = "tick" /\ UNCHANGED ares
    /\ UNCHANGED <<ctlv, fsv, planv, inputv, cleanv, dlv, instv>>

\* auth.rs lines 77-100: one turn of the loop up to its break, tick or return
PostToken ==
    /\ apc = "post"
    /\ polls < MaxPolls
    /\ polls' = polls + 1
    /\ \/ /\ apc' = "ret"
          /\ ares' = RequestError
          /\ UNCHANGED resps
       \/ \E r \in Responses :
             /\ resps' = Append(resps, r)
             /\ IF ParsesAsToken(r)
                THEN apc' = FetchSteps[1] /\ UNCHANGED ares
                ELSE IF ~ParsesAsObject(r)
                THEN apc' = "ret" /\ ares' = JsonError
                ELSE IF IsPending(r)
                THEN apc' = "tick" /\ UNCHANGED ares
                ELSE apc' = "ret" /\ ares' = LoginError(r)
    /\ UNCHANGED <<ctlv, fsv, planv, inputv, cleanv, dlv, instv>>

\* auth.rs line 94: interval.tick().await, then the loop starts over
Tick ==
    /\ apc = "tick"
    /\ apc' = "post"
    /\ UNCHANGED <<ctlv, fsv, planv, inputv, polls, resps, ares, cleanv, dlv,
                   instv>>

\* auth.rs lines 102-112 and 115-131: fetch_info, one request after the
\* other, then Ok(Credentials) built from the token
FetchStep ==
    /\ \E i \in 1..Len(FetchSteps) :
          /\ apc = FetchSteps[i]
          /\ \/ /\ apc' = "ret"
                /\ ares' = RequestError
             \/ /\ i < Len(FetchSteps)
                /\ apc' = FetchSteps[i + 1]
                /\ UNCHANGED ares
             \/ /\ i = Len(FetchSteps)
                /\ apc' = "ret"
                /\ ares' = Credentials(resps[Len(resps)])
    /\ UNCHANGED <<ctlv, fsv, planv, inputv, polls, resps, cleanv, dlv, instv>>

(* ------------------------- initial states ----------------------------- *)
NoDir == [d \in Dirs |-> {}]
CleanIdle ==
    /\ dupes = <<>> /\ slice_out = <<>> /\ ndedupe = 0
    /\ plan_in = <<>> /\ inst_in = <<>>
    /\ entries = {} /\ pre = {} /\ preOld = {} /\ cres = "none"
    /\ cleaned = {}
DownloadIdle ==
    /\ spawned = 0 /\ permits = 0 /\ held = FALSE /\ running = EmptyBag
    /\ joinq = <<>> /\ aborted = EmptyBag /\ started = EmptyBag
    /\ completed = <<>>
AuthIdle == apc = "idle" /\ polls = 0 /\ resps = <<>> /\ ares = None
NoOutput == [n \in Names |-> Absent]
InstallIdle == inst_i = 0 /\ installed = {} /\ out = NoOutput

\* find_dupes_by_key and the removal of what it reports, on any short plan
DupItems == [filename : {NA, NB}, dir : {"mods"}, url : Urls]
InitDupes ==
    /\ pc = "clean_dedupe" /\ cdir = "mods" /\ run = 1 /\ result = None
    /\ files = NoDir /\ subdirs = NoDir /\ old = NoDir
    /\ oldDir = [d \in Dirs |-> FALSE] /\ fslog = {}
    /\ to_download \in SeqsUpTo(DupItems, MaxDupLen)
    /\ to_install = <<>> /\ overrides = <<>>
    /\ manifest = to_download /\ installs0 = <<>>
    /\ files0 = files /\ old0 = old
    /\ warnEnabled \in BOOLEAN /\ broken = {}
    /\ CleanIdle /\ DownloadIdle /\ InstallIdle /\ AuthIdle

SpecDupes == InitDupes /\ [][CleanDedupe]_vars

\* clean on one directory, for every argument, and called a second time
CleanItems == [filename : Names, dir : {"mods"}, url : {1}]
CleanInstalls == [name : {NB}, kind : {"file"}, tree : {FileTree(1)}]
InitClean ==
    /\ pc = "clean_dedupe" /\ cdir = "mods" /\ run = 1 /\ result = None
    /\ \E f \in SUBSET Names, s \in SUBSET {NB}, o \in SUBSET {NA}, od \in BOOLEAN :
          /\ f \cap s = {}
          /\ o # {} => od
          /\ files = [d \in Dirs |-> IF d = "mods" THEN f ELSE {}]
          /\ subdirs = [d \in Dirs |-> IF d = "mods" THEN s ELSE {}]
          /\ old = [d \in Dirs |-> IF d = "mods" THEN o ELSE {}]
          /\ oldDir = [d \in Dirs |-> d = "mods" /\ od]
    /\ fslog = {}
    /\ to_download \in SeqsUpTo(CleanItems, MaxPlan)
    /\ to_install \in SeqsUpTo(CleanInstalls, MaxOverrides)
    /\ overrides = <<>>
    /\ manifest = to_download /\ installs0 = to_install
    /\ files0 = files /\ old0 = old
    /\ warnEnabled \in BOOLEAN /\ broken = {}
    /\ CleanIdle /\ DownloadIdle /\ InstallIdle /\ AuthIdle

NextClean == NextCleanSteps \/ CleanAgain
SpecClean == InitClean /\ [][NextClean]_vars

\* download on short plans of any items, and on one plan larger than the pool
DlItems == [filename : {NA, NB}, dir : {"mods"}, url : Urls]
DlInstalls ==
    [name : {NB}, kind : {"file"}, tree : {FileTree(1)}]
        \cup [name : {NB}, kind : {"dir"}, tree : {{<<"x", 1>>}}]
        \cup [name : {NB}, kind : {"other"}, tree : {{}}]
LargePlan == [i \in 1..PoolPlan |-> [filename |-> NA, dir |-> "mods", url |-> 1]]
InitDownload ==
    /\ pc = "download" /\ cdir = "resourcepacks" /\ run = 1 /\ result = None
    /\ cleaned = Dirs
    /\ files = NoDir /\ subdirs = NoDir /\ old = NoDir
    /\ oldDir = [d \in Dirs |-> TRUE] /\ fslog = {}
    /\ \/ /\ to_download \in SeqsUpTo(DlItems, MaxPlan + 1)
          /\ overrides \in SeqsUpTo(DlInstalls, MaxOverrides)
       \/ /\ to_download = LargePlan
          /\ overrides = <<>>
    /\ to_install = <<>>
    /\ manifest = to_download /\ installs0 = <<>>
    /\ files0 = files /\ old0 = old
    /\ warnEnabled = FALSE /\ broken \in SUBSET Urls
    /\ dupes = <<>> /\ slice_out = <<>> /\ ndedupe = 2
    /\ plan_in = <<>> /\ inst_in = <<>>
    /\ entries = {} /\ pre = {} /\ preOld = {} /\ cres = "ok"
    /\ DownloadIdle /\ InstallIdle /\ AuthIdle

SpecDownload == InitDownload /\ [][NextDownload]_vars

\* download under the scheduling of the runtime: the body of download goes on
\* whenever its next step can be taken (a permit is free, a result is there),
\* and a transfer in flight finishes, with one outcome or the other
DownloadBody ==
    \/ DownloadStart
    \/ Acquire
    \/ Spawn
    \/ SpawnLoopEnd
    \/ JoinOk
    \/ JoinErr
    \/ JoinNone
    \/ InstallEntry
    \/ InstallDone
TaskFinishes ==
    \E item \in BagToSet(running) : TaskOk(item) \/ TaskFail(item)
\* the plans larger than the pool, every transfer succeeding or every
\* transfer failing, with no override or one
InitDownloadLive ==
    /\ pc = "download" /\ cdir = "resourcepacks" /\ run = 1 /\ result = None
    /\ cleaned = Dirs
    /\ files = NoDir /\ subdirs = NoDir /\ old = NoDir
    /\ oldDir = [d \in Dirs |-> TRUE] /\ fslog = {}
    /\ to_download = LargePlan
    /\ overrides \in {<<>>} \cup {<<x>> : x \in DlInstalls}
    /\ to_install = <<>>
    /\ manifest = to_download /\ installs0 = <<>>
    /\ files0 = files /\ old0 = old
    /\ warnEnabled = FALSE /\ broken \in SUBSET {1}
    /\ dupes = <<>> /\ slice_out = <<>> /\ ndedupe = 2
    /\ plan_in = <<>> /\ inst_in = <<>>
    /\ entries = {} /\ pre = {} /\ preOld = {} /\ cres = "ok"
    /\ DownloadIdle /\ InstallIdle /\ AuthIdle
SpecDownloadLive ==
    /\ InitDownloadLive
    /\ [][NextDownload]_vars
    /\ WF_vars(DownloadBody)
    /\ WF_vars(TaskFinishes)

\* the install loop of download, on any entries of an overrides directory
\* (read_dir gives every name once) and any previous content of output_dir
InstNames == {NA, NB}
InstEntries ==
    [name : InstNames, kind : {"file", "link"}, tree : {FileTree(2)}]
        \cup [name : InstNames, kind : {"dir"},
              tree : {{}, {<<"x", 2>>}, {<<"x", 2>>, <<"y", 2>>}}]
        \cup [name : InstNames, kind : {"other"}, tree : {{}}]
InstOutputs ==
    {Absent, [kind |-> "file", tree |-> FileTree(1)],
     [kind |-> "dir", tree |-> {<<"x", 1>>, <<"y", 1>>}]}
InitInstall ==
    /\ pc = "download" /\ cdir = "resourcepacks" /\ run = 1 /\ result = None
    /\ cleaned = Dirs
    /\ files = NoDir /\ subdirs = NoDir /\ old = NoDir
    /\ oldDir = [d \in Dirs |-> TRUE] /\ fslog = {}
    /\ to_download = <<>>
    /\ overrides \in {s \in SeqsUpTo(InstEntries, MaxInstall) :
                         \A i, j \in 1..Len(s) : s[i].name = s[j].name => i = j}
    /\ to_install = <<>>
    /\ manifest = to_download /\ installs0 = <<>>
    /\ files0 = files /\ old0 = old
    /\ warnEnabled = FALSE /\ broken = {}
    /\ dupes = <<>> /\ slice_out = <<>> /\ ndedupe = 2
    /\ plan_in = <<>> /\ inst_in = <<>>
    /\ entries = {} /\ pre = {} /\ preOld = {} /\ cres = "ok"
    /\ DownloadIdle /\ AuthIdle
    /\ inst_i = 0 /\ installed = {}
    /\ \E o \in [InstNames -> InstOutputs] :
          out = [n \in Names |-> IF n \in InstNames THEN o[n] ELSE Absent]

NextInstall ==
    \/ DownloadStart
    \/ SpawnLoopEnd
    \/ JoinNone
    \/ InstallEntry
    \/ InstallDone
SpecInstall == InitInstall /\ [][NextInstall]_vars

\* a whole sync run, or a call of get_metadata
RunItems == [filename : {NA, NB}, dir : Dirs, url : {1}]
RunInstalls ==
    [name : {NB}, kind : {"file"}, tree : {FileTree(1)}]
        \cup [name : {NB}, kind : {"other"}, tree : {{}}]
Init ==
    /\ pc \in {"resolve", "metadata"} /\ cdir = "mods" /\ run = 1 /\ result = None
    /\ \E fm \in SUBSET {NA, NB}, fr \in SUBSET {NA}, o \in SUBSET {NB} :
          /\ files = [d \in Dirs |-> IF d = "mods" THEN fm ELSE fr]
          /\ old = [d \in Dirs |-> IF d = "mods" THEN o ELSE {}]
          /\ oldDir = [d \in Dirs |-> d = "mods" /\ o # {}]
    /\ subdirs = NoDir
    /\ fslog = {}
    /\ manifest \in SeqsUpTo(RunItems, MaxPlan)
    /\ overrides \in SeqsUpTo(RunInstalls, MaxOverrides)
    /\ to_download = <<>> /\ to_install = <<>> /\ installs0 = <<>>
    /\ files0 = files /\ old0 = old
    /\ warnEnabled \in BOOLEAN /\ broken \in SUBSET {1}
    /\ CleanIdle /\ DownloadIdle /\ InstallIdle /\ AuthIdle

Spec == Init /\ [][Next]_vars

\* a call of get_credentials, before any sync run
InitAuth ==
    /\ pc = "resolve" /\ cdir = "mods" /\ run = 1 /\ result = None
    /\ files = NoDir /\ subdirs = NoDir /\ old = NoDir
    /\ oldDir = [d \in Dirs |-> FALSE] /\ fslog = {}
    /\ to_download = <<>> /\ to_install = <<>> /\ overrides = <<>>
    /\ manifest = <<>> /\ installs0 = <<>>
    /\ files0 = files /\ old0 = old
    /\ warnEnabled \in BOOLEAN /\ broken = {}
    /\ CleanIdle /\ DownloadIdle /\ InstallIdle
    /\ apc = "post" /\ polls = 0 /\ resps = <<>> /\ ares = None

NextAuth ==
    \/ PostToken
    \/ Tick
    \/ FetchStep
SpecAuth == InitAuth /\ [][NextAuth]_vars

(* ------------------------------ claims -------------------------------- *)
InFlight == BagCardinality(running)
SchedulerFailed == result.kind = "err" /\ result.err = "download"
SchedulerSucceeded == pc \in {"install", "done"}
Failures == {i \in 1..Len(completed) : ~completed[i].ok}
Landed(item) == item.filename \in files[item.dir]

\* C1: while download runs, the transfers in flight never exceed the 75
\* permits, and every transfer in flight holds a permit of its own: the
\* permits still available, the one the loop holds for the next task and the
\* ones held by running tasks always add up to 75.
C1_BoundedConcurrency ==
    pc \in {"spawn", "join"} =>
        /\ InFlight <= Permits
        /\ permits >= 0
        /\ permits + InFlight + (IF held THEN 1 ELSE 0) = Permits

\* the pool is saturated while items are still waiting to be submitted
C1_Witness ==
    /\ pc = "spawn"
    /\ InFlight = Permits
    /\ permits = 0
    /\ spawned < Len(to_download)

\* C2: when a transfer has failed and download has returned, every submitted
\* transfer has run to completion: none was aborted in flight, and every item
\* whose transfer succeeds has its file on disk.
C2_FailAfterDrain ==
    SchedulerFailed =>
        /\ Len(completed) = Len(to_download)
        /\ \A i \in 1..Len(to_download) :
              to_download[i].url \notin broken => Landed(to_download[i])

\* C3: download gets past its join loop exactly when every item was
\* transferred successfully; once a transfer has failed the run is reported
\* as failed, with the error of the first failure in completion order.
C3_FirstError ==
    /\ SchedulerSucceeded =>
          /\ Len(completed) = Len(to_download)
          /\ Failures = {}
          /\ \A i \in 1..Len(to_download) : Landed(to_download[i])
    /\ SchedulerFailed =>
          /\ Failures # {}
          /\ LET first == CHOOSE i \in Failures : \A j \in Failures : i <= j
             IN  result = DownloadError(completed[first].item)
    /\ (pc \in {"install", "done", "failed"} /\ Failures # {}) => SchedulerFailed

\* two different transfers failed, the run reports the first of them
C3_Witness ==
    /\ SchedulerFailed
    /\ \E i, j \in Failures :
          /\ i < j
          /\ completed[i].item # completed[j].item
          /\ result = DownloadError(completed[i].item)

CleanReturnedOk == pc = "clean_ret" /\ cres = "ok"
\* how many desired items (downloads and installs) carry the name
Wanted(dl, inst, f) ==
    CountName(dl, f) + Cardinality({i \in 1..Len(inst) : inst[i].name = f})
Did(op, f) == FsOp(op, cdir, f, TRUE) \in fslog
Tried(op, f) == \E ok \in BOOLEAN : FsOp(op, cdir, f, ok) \in fslog
\* the three outcomes of a file that was in the directory, read off the
\* directory, .old and the plan as clean left them
KeptFor(f) ==
    /\ f \in files[cdir]
    /\ Wanted(plan_in, inst_in, f) > 0
    /\ Wanted(to_download, to_install, f) < Wanted(plan_in, inst_in, f)
MovedToOld(f) ==
    /\ f \notin files[cdir]
    /\ f \in old[cdir] /\ f \notin preOld
    /\ Did("move", f)
DeletedFile(f) ==
    /\ f \notin files[cdir]
    /\ Did("delete", f)
Outcomes(f) ==
    (IF KeptFor(f) THEN {"kept"} ELSE {})
        \cup (IF MovedToOld(f) THEN {"moved"} ELSE {})
        \cup (IF DeletedFile(f) THEN {"deleted"} ELSE {})

\* C4: when clean returns Ok, every regular file that was in the directory
\* is in exactly one of three outcomes: kept in place for a desired item
\* that left the plan, moved to .old, or deleted.
C4_Completeness ==
    CleanReturnedOk => \A f \in pre : Cardinality(Outcomes(f)) = 1

\* one clean that kept a file, moved one and deleted one
C4_Witness ==
    /\ CleanReturnedOk
    /\ \E f, g, h \in pre :
          Outcomes(f) = {"kept"} /\ Outcomes(g) = {"moved"} /\ Outcomes(h) = {"deleted"}

C6_PartialAlwaysDeleted ==
    \A f \in pre :
        EndsWith(f, DotPart) =>
            /\ ~Tried("move", f)
            /\ CleanReturnedOk => DeletedFile(f)

\* C6, amended: a regular file whose name ends in ".part" is never moved to
\* .old; a clean that returns Ok has deleted it unless a desired download or
\* install has that same filename, and then it is kept in place.
C6_PartialDeletedUnlessDesired ==
    \A f \in pre :
        EndsWith(f, DotPart) =>
            /\ ~Tried("move", f)
            /\ f \notin old[cdir] \ preOld
            /\ CleanReturnedOk =>
                  IF Wanted(plan_in, inst_in, f) > 0
                  THEN KeptFor(f) /\ ~Tried("delete", f)
                  ELSE DeletedFile(f)

\* a stale partial file was deleted
C6_Witness ==
    /\ CleanReturnedOk
    /\ \E f \in pre :
          EndsWith(f, DotPart) /\ Wanted(plan_in, inst_in, f) = 0 /\ DeletedFile(f)

\* C7: find_dupes_by_key reports as many indices as there are items beyond
\* one per filename, and once the reported indices are swap-removed in the
\* order returned every filename of the input has exactly one item left.
C7_DuplicateFiltering ==
    pc = "clean_mkdir" =>
        /\ Len(dupes) = Len(plan_in) - Cardinality(FileNames(plan_in))
        /\ (warnEnabled \/ dupes = <<>>) =>
              /\ FileNames(to_download) = FileNames(plan_in)
              /\ \A f \in FileNames(plan_in) : CountName(to_download, f) = 1
              /\ \A i \in 1..Len(to_download) :
                    \E j \in 1..Len(plan_in) : to_download[i] = plan_in[j]

\* two groups of duplicates were filtered down to one item each
C7_Witness ==
    /\ pc = "clean_mkdir"
    /\ warnEnabled
    /\ Len(dupes) >= 2
    /\ Len(to_download) = 2

\* C8: a stale file whose name does not end in ".part" is deleted only after
\* a move into .old was attempted and failed.
C8_RetiredNotDeleted ==
    \A f \in pre :
        (~EndsWith(f, DotPart) /\ Did("delete", f)) => FsOp("move", cdir, f, FALSE) \in fslog

\* the filenames the manifest wants in directory d
Desired(d) == {manifest[i].filename : i \in {j \in 1..Len(manifest) : manifest[j].dir = d}}
StartedFor(d, f) == \E item \in BagToSet(started) : item.dir = d /\ item.filename = f
AllMovesSucceeded == \A r \in fslog : r.op = "move" => r.ok
SyncSucceeded == pc = "done" /\ result = Ok

\* C9: after a sync run that succeeded with every move succeeding, in each
\* managed directory every file that was there and is desired is still in
\* place, was not downloaded again and was not moved; every desired filename
\* that was not there has been downloaded; and every file that was there,
\* is not desired and is not a partial download is in .old and no longer in
\* the directory.
C9_EndToEnd ==
    (SyncSucceeded /\ AllMovesSucceeded) =>
        \A d \in Dirs :
            /\ \A f \in files0[d] \cap Desired(d) :
                  f \in files[d] /\ ~StartedFor(d, f) /\ f \notin old[d] \ old0[d]
            /\ \A f \in Desired(d) \ files0[d] :
                  StartedFor(d, f) /\ f \in files[d]
            /\ \A f \in files0[d] \ Desired(d) :
                  ~EndsWith(f, DotPart) => (f \in old[d] /\ f \notin files[d])

\* C10: a transfer is started only once clean has returned on every managed
\* directory, and an override is installed only once every item of the plan
\* has been submitted and every transfer has finished.
C10_PhaseOrdering ==
    /\ (BagCardinality(started) > 0 \/ held) => cleaned = Dirs
    /\ (installed # {} \/ inst_i > 0) =>
          /\ InFlight = 0
          /\ BagCardinality(started) = Len(to_download)
          /\ Len(completed) = Len(to_download)

\* a run that moved a stale file, transferred an item and installed an override
C10_Witness ==
    /\ installed # {}
    /\ Len(completed) > 0
    /\ \E r \in fslog : r.op = "move" /\ r.ok

\* the stage a failed run stopped in, as far as the state tells
FailedBeforeDownload == pc = "failed" /\ cleaned # Dirs
NothingTransferred == started = EmptyBag /\ spawned = 0 /\ running = EmptyBag
NothingInstalled == installed = {} /\ inst_i = 0 /\ out = NoOutput

\* C11: a failure of any stage of a sync run is terminal. A run that failed
\* before both directories were reconciled has started no transfer and
\* installed no override; a run whose download phase failed has installed no
\* override; a run whose manifest resolution failed has reconciled nothing.
\* Once the run has failed no stage acts again: the result stays, no transfer
\* is started, no override is installed, no directory is reconciled, and
\* nothing that the completed stages did is undone (every file present stays).
C11_TerminalFailure ==
    /\ [](/\ FailedBeforeDownload => NothingTransferred /\ NothingInstalled
          /\ (pc = "failed" /\ SchedulerFailed) => NothingInstalled
          /\ (pc = "failed" /\ result = MetaError("modpack")) =>
                cleaned = {} /\ ndedupe = 0)
    /\ [][pc = "failed" =>
            /\ pc' = "failed" /\ result' = result
            /\ started' = started /\ spawned' = spawned
            /\ instv' = instv
            /\ fslog' = fslog /\ cleaned' = cleaned /\ old' = old
            /\ to_download' = to_download
            /\ \A d \in Dirs : files[d] \subseteq files'[d]]_vars

\* the reconciliation of resourcepacks failed after the one of mods had moved
\* or deleted a file, with transfers and an override still to come
C11_Witness ==
    /\ FailedBeforeDownload
    /\ cleaned = {"mods"}
    /\ \E r \in Mutations : r.op \in {"move", "delete"} /\ r.dir = "mods"
    /\ to_download # <<>>
    /\ overrides # <<>>

\* what the install loop has gone through, and what it is about to visit
Visited == {overrides[j] : j \in 1..inst_i}
AtEntry(i) == pc = "install" /\ inst_i = i - 1
UnknownTypeFailure == result.kind = "err" /\ result.err = "unknown_type"
\* output_dir holds x under its name: a regular file with the content of the
\* source, or a directory with every file of the source tree
Holds(x) ==
    /\ out[x.name].kind = (IF IsDir(x) THEN "dir" ELSE "file")
    /\ x.tree \subseteq out[x.name].tree

\* C12 as stated: an entry that is not itself a regular file or a directory
\* (a symbolic link included) is never installed and the loop never goes
\* past it.
C12_NonRegularFails ==
    \A i \in 1..Len(overrides) :
        overrides[i].kind \notin {"file", "dir"} =>
            /\ inst_i < i
            /\ overrides[i].name \notin installed

\* C12, amended: an entry whose path resolves, symbolic links followed, to
\* neither a regular file nor a directory is never installed and the loop
\* never goes past it. The step that visits it fails with the unknown-type
\* error that names it and installs nothing; at that failure exactly the
\* entries before it are installed and output_dir still holds each of them.
C12_UnresolvedFails ==
    /\ [](\A i \in 1..Len(overrides) :
            (~IsFile(overrides[i]) /\ ~IsDir(overrides[i])) =>
                /\ inst_i < i
                /\ overrides[i].name \notin installed)
    /\ [](UnknownTypeFailure =>
            /\ pc = "failed"
            /\ inst_i < Len(overrides)
            /\ ~IsFile(overrides[inst_i + 1]) /\ ~IsDir(overrides[inst_i + 1])
            /\ result = UnknownTypeError(overrides[inst_i + 1].name)
            /\ installed = {x.name : x \in Visited}
            /\ \A x \in Visited : Holds(x))
    /\ [][\A i \in 1..Len(overrides) :
            (AtEntry(i) /\ ~IsFile(overrides[i]) /\ ~IsDir(overrides[i])) =>
                /\ pc' = "failed"
                /\ result' = UnknownTypeError(overrides[i].name)
                /\ installed' = installed /\ out' = out]_vars

\* the second entry is of unknown type: the run failed naming it, the first
\* entry, a directory, is installed over a directory that was there
C12_Witness ==
    /\ UnknownTypeFailure
    /\ inst_i = 1
    /\ overrides[1].kind = "dir" /\ overrides[1].tree # {}
    /\ installed = {overrides[1].name}
    /\ result.name = overrides[2].name

\* C13: when the install loop has succeeded, output_dir holds every entry
\* under the entry's own name: a file entry is a regular file there whose
\* content is the content of the source, a directory entry is a directory
\* there that has every file of the source tree with the content of the
\* source, files that were there before under the same path being replaced.
C13_InstallPostcondition ==
    pc = "done" =>
        /\ installed = {overrides[i].name : i \in 1..Len(overrides)}
        /\ \A i \in 1..Len(overrides) :
              LET x == overrides[i]
              IN  /\ Holds(x)
                  /\ IsFile(x) => out[x.name].tree = x.tree
                  /\ \A p \in out[x.name].tree :
                        p \in x.tree \/ (\A q \in x.tree : q[1] # p[1])

\* a directory entry was installed over a directory that had a file of the
\* same path and another one, and a file entry over a regular file
C13_Witness ==
    /\ pc = "done"
    /\ Len(overrides) = 2
    /\ \E i, j \in 1..2 :
          /\ overrides[i].kind = "dir"
          /\ out[overrides[i].name].tree = {<<"x", 2>>, <<"y", 1>>}
          /\ overrides[j].kind = "file"
          /\ out[overrides[j].name].tree = FileTree(2)

\* an override entry that a regular file of a managed directory already
\* provides, and that no item of the manifest asks for
AlreadyPresent(x, d) ==
    /\ x.name \in files0[d]
    /\ \A j \in 1..Len(manifest) : manifest[j].filename # x.name

\* C14: in a sync run reconciliation works on the overrides as its desired
\* install set: once both directories are reconciled, an override entry whose
\* name is the name of a regular file that was in a managed directory, and
\* that no desired download matches, has left its file in place and is out
\* of the install plan, so the install loop never installs it.
C14_SharedInstallSet ==
    cleaned = Dirs =>
        \A i \in 1..Len(overrides), d \in Dirs :
            AlreadyPresent(overrides[i], d) =>
                /\ overrides[i].name \in files[d]
                /\ overrides[i].name \notin installed

\* s and t have the same elements, each as many times
IsPermutation(s, t) ==
    /\ Len(s) = Len(t)
    /\ \A i \in 1..Len(s) :
          Cardinality({j \in 1..Len(s) : s[j] = s[i]})
              = Cardinality({j \in 1..Len(t) : t[j] = s[i]})
DedupeReturned == pc = "clean_mkdir"

\* C15 as stated: when find_dupes_by_key returns, the caller's sequence has
\* the elements it had, in the order it had.
C15_InputUnchanged ==
    DedupeReturned => slice_out = plan_in

\* C15, amended: when find_dupes_by_key returns, the caller's sequence has the
\* elements it had, each as many times, reordered so that filenames never
\* decrease, and every index returned is a position of that reordered
\* sequence at which an item has the filename of the item after it.
C15_InputSortedInPlace ==
    DedupeReturned =>
        /\ IsPermutation(plan_in, slice_out)
        /\ \A i \in 1..(Len(slice_out) - 1) :
              ~StrLess(slice_out[i + 1].filename, slice_out[i].filename)
        /\ \A k \in 1..Len(dupes) :
              /\ dupes[k] \in 1..(Len(slice_out) - 1)
              /\ slice_out[dupes[k]].filename = slice_out[dupes[k] + 1].filename

\* the caller's sequence came back in another order, with a duplicate found
C15_Witness ==
    /\ DedupeReturned
    /\ slice_out # plan_in
    /\ dupes # <<>>
    /\ Cardinality(FileNames(plan_in)) = 2

ManifestFailure == result.kind = "err" /\ result.err = "meta"

\* C16: when the version or the loader of the modpack is not found the call
\* fails with the manifest error and nothing on disk has changed: no
\* directory was created, the managed directories and their .old hold what
\* they held, no transfer was started, no override was installed, no
\* directory was reconciled. A sync run that failed this way is over.
C16_ManifestErrorFirst ==
    ManifestFailure =>
        /\ pc \in {"failed", "metadata_ret"}
        /\ fslog = {}
        /\ files = files0 /\ old = old0
        /\ oldDir = [d \in Dirs |-> old0[d] # {}]
        /\ cleaned = {} /\ ndedupe = 0
        /\ NothingTransferred /\ NothingInstalled

\* a sync run with files on disk, a manifest and an override found no version
C16_Witness ==
    /\ pc = "failed"
    /\ result = MetaError("modpack")
    /\ files0["mods"] # {}
    /\ manifest # <<>>
    /\ overrides # <<>>

\* the calls of clean that have got past their first statement
CleanCalls ==
    Cardinality(cleaned) +
        (IF pc \in {"clean_mkdir", "clean_loop"} \/ (pc = "clean_ret" /\ cres = "err")
            \/ (pc = "failed" /\ cres = "err")
         THEN 1 ELSE 0)

\* C17 as stated: the duplicate detector runs once in a sync run, and it has
\* run by the time the first directory is being reconciled.
C17_DedupeOnce ==
    /\ ndedupe <= 1
    /\ (pc \in {"clean_mkdir", "clean_loop", "clean_ret"} \/ cleaned # {}) => ndedupe = 1

\* C17, amended: the duplicate detector runs once in every call of clean, as
\* the first thing the call does: it has run as many times as clean was
\* entered, before any entry of that call's directory is examined, hence
\* twice in a sync run that reconciled both directories.
C17_DedupePerDirectory ==
    /\ pc \in {"metadata", "metadata_ret", "resolve", "prepare", "clean_dedupe"} =>
          ndedupe = Cardinality(cleaned)
    /\ ndedupe = CleanCalls
    /\ cleaned = Dirs => ndedupe = 2
    /\ pc = "clean_loop" => ndedupe = (IF cdir = "mods" THEN 1 ELSE 2)

\* the second call of clean found duplicates again in the same sequence
C17_Witness ==
    /\ cdir = "resourcepacks"
    /\ pc = "clean_loop"
    /\ ndedupe = 2
    /\ dupes # <<>>
    /\ cleaned = {"mods"}

\* to_download as the duplicate detection of the current clean left it
AfterDedupe ==
    IF dupes # <<>> /\ warnEnabled THEN RemoveDupes(slice_out, dupes) ELSE slice_out
NonFiles == subdirs[cdir] \cup {OldName}

\* C18: reconciliation acts on regular files only. For an entry of the
\* directory that is not a regular file (a subdirectory, .old itself) no move
\* and no delete is ever attempted, the entry stays, and the items and
\* installables of that name are as many as they were when the loop started.
C18_OnlyRegularFiles ==
    /\ [](pc \in {"clean_loop", "clean_ret"} =>
            \A f \in NonFiles :
                /\ ~Tried("move", f) /\ ~Tried("delete", f)
                /\ f \notin files[cdir]
                /\ CountName(to_download, f) = CountName(AfterDedupe, f)
                /\ PositionInst(to_install, f) = PositionInst(inst_in, f))
    /\ [][subdirs' = subdirs /\ (oldDir[cdir] => oldDir'[cdir])]_vars

\* a subdirectory was passed over while an item and an installable carry its
\* name, in a call that moved a stale file
C18_Witness ==
    /\ CleanReturnedOk
    /\ \E f \in subdirs[cdir] :
          /\ CountName(to_download, f) > 0
          /\ PositionInst(to_install, f) # 0
    /\ \E g \in pre : MovedToOld(g)

\* C19: when clean has returned Ok for a directory, no item left in
\* to_download has the filename of a regular file present in that directory.
C19_NoPresentItemLeft ==
    CleanReturnedOk =>
        \A i \in 1..Len(to_download) : to_download[i].filename \notin files[cdir]

MoveFailed(f) == FsOp("move", cdir, f, FALSE) \in fslog
MoveFailedNext(f) == FsOp("move", cdir, f, FALSE) \in fslog'

\* C20: when the move of a stale file into .old fails, clean deletes the
\* file instead: the delete was attempted, and if it succeeded the file is
\* gone from the directory and the loop goes on with the call's result
\* untouched. A file whose name is already in .old is never moved there, so
\* what .old held under that name stays, and .old never loses a name.
C20_MoveFailureFallsBack ==
    /\ [](pc \in {"clean_loop", "clean_ret"} =>
            /\ \A f \in pre :
                  /\ MoveFailed(f) =>
                        /\ Tried("delete", f)
                        /\ Did("delete", f) => f \notin files[cdir]
                  /\ f \in preOld => ~Did("move", f)
            /\ preOld \subseteq old[cdir])
    /\ [][\A f \in Names :
            (~MoveFailed(f) /\ MoveFailedNext(f)
                /\ FsOp("delete", cdir, f, TRUE) \in fslog') =>
                    /\ pc' = "clean_loop"
                    /\ cres' = cres
                    /\ f \notin files'[cdir]
                    /\ old' = old]_vars

\* a stale file whose name was already in .old was deleted after its move
\* was refused, another stale file was moved, and clean returned Ok
C20_Witness ==
    /\ CleanReturnedOk
    /\ \E f \in pre \cap preOld : MoveFailed(f) /\ DeletedFile(f) /\ f \in old[cdir]
    /\ \E g \in pre : MovedToOld(g)

\* the positions of the sorted sequence that hold an item named f (its run)
RunOf(f) == {i \in 1..Len(slice_out) : slice_out[i].filename = f}
FirstOfRun(f) == slice_out[CHOOSE i \in RunOf(f) : \A j \in RunOf(f) : i <= j]
Survivors(f) == {i \in 1..Len(to_download) : to_download[i].filename = f}

\* C21: when the duplicates have been filtered, of the items that share a
\* filename exactly one is left in to_download, and it is the first item of
\* the group's run in the sorted sequence; every other position of the run
\* is among the reported indices.
C21_LowestSortedSurvives ==
    DedupeReturned =>
        \A f \in FileNames(plan_in) :
            /\ Cardinality(Survivors(f)) = 1
            /\ \A i \in Survivors(f) : to_download[i] = FirstOfRun(f)
            /\ \A i \in RunOf(f) :
                  slice_out[i] # FirstOfRun(f) => \E k \in 1..Len(dupes) : dupes[k] = i

SpawnLoopOver == pc \in {"join", "install", "done"} \/ SchedulerFailed

\* C22: download submits the items of to_download in order, each once: the
\* transfers started so far are exactly the first `spawned` items, an item is
\* never started more often than the plan holds it, whatever has failed in
\* the meantime; and once the submission loop is over every item of the plan
\* has been started, whether or not an earlier transfer had failed.
C22_SubmittedOnce ==
    /\ spawned = BagCardinality(started)
    /\ spawned <= Len(to_download)
    /\ \A item \in BagToSet(started) :
          CopiesIn(item, started)
              = Cardinality({i \in 1..spawned : to_download[i] = item})
    /\ Len(completed) <= spawned
    /\ SpawnLoopOver => spawned = Len(to_download)

\* a plan larger than the pool whose transfers fail: some had failed before
\* the last items could be submitted, and all of them were submitted
C22_Witness ==
    /\ pc = "join"
    /\ Len(to_download) > Permits
    /\ Failures # {}
    /\ BagCardinality(started) = Len(to_download)

Returned == pc \in {"done", "failed"}

\* C23: under the scheduling of the runtime, with every transfer in flight
\* finishing, the submission loop of download always gets to the end of the
\* plan, however many items exceed the 75 permits, and download returns.
C23_NoPoolDeadlock ==
    /\ (pc = "spawn") ~> (pc # "spawn" /\ spawned = Len(to_download))
    /\ <>Returned

\* download has returned Ok on a plan larger than the pool
C23_Witness ==
    /\ pc = "done"
    /\ result = Ok
    /\ Len(to_download) > Permits
    /\ Len(completed) = Len(to_download)

\* C24: after a sync run that returned Ok, every item of the manifest whose
\* filename no other item of the manifest has (so that duplicate filtering
\* did not drop it) has a file of its filename in its own directory.
C24_OwnDirectory ==
    SyncSucceeded =>
        \A i \in 1..Len(manifest) :
            CountName(manifest, manifest[i].filename) = 1 => Landed(manifest[i])

\* the response tells get_credentials to ask again
Pending(r) == ~ParsesAsToken(r) /\ ParsesAsObject(r) /\ IsPending(r)
LastResponse == resps[Len(resps)]
InFetch == \E i \in 1..Len(FetchSteps) : apc = FetchSteps[i]
\* every response but the last one was authorization_pending, and no request
\* was posted after the last one unless it was authorization_pending too
AsksOnlyAfterPending ==
    /\ \A k \in 1..(Len(resps) - 1) : Pending(resps[k])
    /\ polls \in {Len(resps), Len(resps) + 1}
    /\ (polls = Len(resps) + 1) =>
          /\ apc = "ret" /\ ares = RequestError
          /\ resps # <<>> => Pending(LastResponse)
\* a response that parses as a token ends the loop: the call is in
\* fetch_info or has returned, with credentials made of that token unless a
\* request of fetch_info failed
TokenEndsLoop ==
    (resps # <<>> /\ ParsesAsToken(LastResponse)) =>
        /\ InFetch \/ apc = "ret"
        /\ apc = "ret" => ares \in {Credentials(LastResponse), RequestError}

\* C25 as stated: a further token request follows a response only if that
\* response was authorization_pending; a response that parses as a token
\* ends the loop; a response that is neither ends the call with the login
\* error, no further request posted.
C25_PollingAsStated ==
    /\ AsksOnlyAfterPending
    /\ TokenEndsLoop
    /\ (resps # <<>> /\ ~ParsesAsToken(LastResponse) /\ ~Pending(LastResponse)) =>
          /\ apc = "ret"
          /\ polls = Len(resps)
          /\ ares = LoginError(LastResponse)

\* C25, amended: as stated, except that a response that is neither a token
\* nor authorization_pending ends the call with the login error only if it
\* is a JSON object; a body that is not a JSON object ends it with the JSON
\* error. In both cases no further request is posted.
C25_Polling ==
    /\ AsksOnlyAfterPending
    /\ TokenEndsLoop
    /\ (resps # <<>> /\ ~ParsesAsToken(LastResponse) /\ ~Pending(LastResponse)) =>
          /\ apc = "ret"
          /\ polls = Len(resps)
          /\ ares = IF ParsesAsObject(LastResponse) THEN LoginError(LastResponse)
                    ELSE JsonError

\* two authorization_pending responses were each followed by a request, and
\* the third response, an error of another kind, ended the call
C25_Witness ==
    /\ Len(resps) = 3
    /\ polls = 3
    /\ Pending(resps[1]) /\ Pending(resps[2])
    /\ LastResponse.error = "access_denied"
    /\ apc = "ret"
    /\ ares = LoginError(LastResponse)
====
